---- MODULE Spec2Model ----
(***************************************************************************)
(* Life Insurance Comparison API (src/main.py, src/schemas.py).            *)
(*                                                                         *)
(* Money and factors are Python floats in the source.  They are kept here  *)
(* as exact scaled integers:                                               *)
(*   base_rates          tenths of a dollar      (18.0  -> 180)            *)
(*   male_factor         hundredths              (1.05  -> 105)            *)
(*   smoker_multiplier   tenths                  (1.7   -> 17)             *)
(*   term_adj            hundredths              (1.03  -> 103)            *)
(*   monthly_premium     cents                   (56.70 -> 5670)           *)
(* round(monthly, 2) of the source rounds the binary float; where the      *)
(* exact product lies halfway between two cents the float's own rounding   *)
(* error decides the cent.  The plans and requests used below were run     *)
(* through the source function: on them the exact half-even result is the  *)
(* source's result, and every product stays below 2^31.                    *)
(***************************************************************************)
EXTENDS Integers, Sequences, FiniteSets, TLC

VARIABLES insurer, plan, quoterequest, quote, nextId, resp, calls,
          pc, loc,
          cplan, creq, cout, cprev

storeVars == <<insurer, plan, quoterequest, quote, nextId>>
callVars == <<resp, calls>>
procVars == <<pc, loc>>
calcVars == <<cplan, creq, cout, cprev>>
vars == <<insurer, plan, quoterequest, quote, nextId, resp, calls,
          pc, loc, cplan, creq, cout, cprev>>

--------------------------------------------------------------------------
(* Bounds of the model *)

\* coverage amounts offered to the calculator: 50000 * (1..MaxCoverageSteps)
MaxCoverageSteps == 9

\* handler calls in one sequential run from an empty store
MaxCalls == 4

\* handler calls in one sequential run on a given catalog, or with store
\* calls that raise
MaxShortRun == 2

--------------------------------------------------------------------------
(* Helpers *)

Min(a, b) == IF a <= b THEN a ELSE b

Max(a, b) == IF a >= b THEN a ELSE b

\* Python round(n/d) for n >= 0, d > 0: nearest integer, a tie goes to the
\* even neighbour (RoundHalfUp, used by a faulty variant, rounds a tie up)
RoundHalfUp(n, d) == (2 * n + d) \div (2 * d)

RoundHalfEven(n, d) ==
    LET q == n \div d
        r == n % d
    IN  IF 2 * r < d THEN q
        ELSE IF 2 * r > d THEN q + 1
        ELSE IF q % 2 = 0 THEN q ELSE q + 1

--------------------------------------------------------------------------
(* premium_from_plan, src/main.py:115-135 *)

\* for i, b in enumerate(bands): if req.age >= b: idx = i     (idx is 0-based;
\* i is the 1-based position in the TLA+ sequence)
RECURSIVE ScanBands(_, _, _, _)
ScanBands(bands, age, i, idx) ==
    IF i > Len(bands) THEN idx
    ELSE ScanBands(bands, age, i + 1, IF age >= bands[i] THEN i - 1 ELSE idx)

\* faulty variant: the clamp to len(rates) - 1 is forgotten
BandIndexNoClamp(p, req) == ScanBands(p.age_band, req.age, 1, 0)

\* lines 119-125
BandIndex(p, req) ==
    Min(ScanBands(p.age_band, req.age, 1, 0), Len(p.base_rates) - 1)

\* rates[idx] with Python's list indexing: 0..len-1, negative from the end,
\* anything else raises IndexError
RateAt(rates, idx) ==
    IF idx >= 0 /\ idx < Len(rates) THEN [err |-> "none", value |-> rates[idx + 1]]
    ELSE IF idx < 0 /\ idx >= -Len(rates)
         THEN [err |-> "none", value |-> rates[Len(rates) + idx + 1]]
    ELSE [err |-> "IndexError", value |-> 0]

\* what a call of premium_from_plan yields: the exception raised, if any, the
\* value returned (cents), and the locals idx and units it computed with
CalcResult(err, value, idx, units) ==
    [err |-> err, value |-> value, idx |-> idx, units |-> units]

\* faulty variant: units rounded half-up
CoverageUnitsHalfUp(req) == Max(1, RoundHalfUp(req.coverage_amount, 100000))

\* line 131
CoverageUnits(req) == Max(1, RoundHalfEven(req.coverage_amount, 100000))

\* line 133, in hundredths: 1.0 is 100, each year of excess 0.01 is 1
TermAdj(p, req) == 100 + Max(0, req.term_years - p.term_years) * 1

\* faulty variant: line 132 divides by the units instead of multiplying
PremiumPerUnitOnly(p, req) ==
    LET r == RateAt(p.base_rates, BandIndex(p, req))
        n == r.value * (IF req.gender = "male" THEN p.male_factor ELSE 100)
                     * (IF req.smoker THEN p.smoker_multiplier ELSE 10)
                     * TermAdj(p, req)
    IN  IF r.err # "none"
        THEN CalcResult(r.err, 0, BandIndex(p, req), CoverageUnits(req))
        ELSE CalcResult("none", RoundHalfEven(n \div CoverageUnits(req), 10000),
                        BandIndex(p, req), CoverageUnits(req))

\* lines 115-135
premium_from_plan(p, req) ==
    LET r == RateAt(p.base_rates, BandIndex(p, req))
        per_100k == r.value
                    * (IF req.gender = "male" THEN p.male_factor ELSE 100)
                    * (IF req.smoker THEN p.smoker_multiplier ELSE 10)
        monthly == per_100k * CoverageUnits(req) * TermAdj(p, req)
    IN  IF r.err # "none"
        THEN CalcResult(r.err, 0, BandIndex(p, req), CoverageUnits(req))
        ELSE CalcResult("none", RoundHalfEven(monthly, 10000),
                        BandIndex(p, req), CoverageUnits(req))

--------------------------------------------------------------------------
(* Documents and the seed data, src/main.py:64-102 *)

\* str(ObjectId): the text form used as Plan.insurer_id, as the key of
\* insurers_by_id and as Quote.request_id
Str(oid) == "oid" \o ToString(oid)

\* Insurer(...).model_dump(); rating in tenths
InsurerModel(name, rating10, tagline) ==
    [name |-> name, logo_url |-> "None", rating |-> rating10, tagline |-> tagline]

\* lines 64-66: the three insurers, in the order they are inserted
SeedInsurers ==
    << InsurerModel("Acme Life", 46, "Protect what matters"),
       InsurerModel("ShieldGuard", 44, "Coverage you can count on"),
       InsurerModel("FamilyFirst", 47, "For the ones you love") >>

\* faulty variant: the third plan is given an id that is no insurer's
SeedPlansDangling(acme_id, shield_id, family_id) ==
    << [insurer_id |-> Str(acme_id), name |-> "Term Secure",
        coverage_amount |-> 250000, term_years |-> 20,
        smoker_multiplier |-> 17, male_factor |-> 105,
        age_band |-> <<25, 35, 45, 55>>, base_rates |-> <<120, 180, 290, 480>>,
        features |-> <<"Accelerated benefits", "Level premiums", "Convertible">>],
       [insurer_id |-> Str(shield_id), name |-> "Guardian Term",
        coverage_amount |-> 500000, term_years |-> 30,
        smoker_multiplier |-> 18, male_factor |-> 103,
        age_band |-> <<25, 35, 45, 55>>, base_rates |-> <<150, 220, 360, 600>>,
        features |-> <<"Online application", "Living benefits", "Critical illness rider">>],
       [insurer_id |-> Str(family_id + 3), name |-> "Family Promise",
        coverage_amount |-> 300000, term_years |-> 20,
        smoker_multiplier |-> 16, male_factor |-> 102,
        age_band |-> <<25, 35, 45, 55>>, base_rates |-> <<130, 195, 310, 500>>,
        features |-> <<"Child rider", "Waiver of premium", "No exam up to $250k">>] >>

\* lines 68-102: the three Plan models
SeedPlans(acme_id, shield_id, family_id) ==
    << [insurer_id |-> Str(acme_id), name |-> "Term Secure",
        coverage_amount |-> 250000, term_years |-> 20,
        smoker_multiplier |-> 17, male_factor |-> 105,
        age_band |-> <<25, 35, 45, 55>>, base_rates |-> <<120, 180, 290, 480>>,
        features |-> <<"Accelerated benefits", "Level premiums", "Convertible">>],
       [insurer_id |-> Str(shield_id), name |-> "Guardian Term",
        coverage_amount |-> 500000, term_years |-> 30,
        smoker_multiplier |-> 18, male_factor |-> 103,
        age_band |-> <<25, 35, 45, 55>>, base_rates |-> <<150, 220, 360, 600>>,
        features |-> <<"Online application", "Living benefits", "Critical illness rider">>],
       [insurer_id |-> Str(family_id), name |-> "Family Promise",
        coverage_amount |-> 300000, term_years |-> 20,
        smoker_multiplier |-> 16, male_factor |-> 102,
        age_band |-> <<25, 35, 45, 55>>, base_rates |-> <<130, 195, 310, 500>>,
        features |-> <<"Child rider", "Waiver of premium", "No exam up to $250k">>] >>

\* a model's model_dump() stored with a fresh _id (insert_one)
WithId(doc, oid) ==
    [k \in DOMAIN doc \cup {"_id"} |-> IF k = "_id" THEN oid ELSE doc[k]]

\* lines 147-161: Plan(**{k: p[k] for k in keys if k in p})
PlanKeys == {"insurer_id", "name", "coverage_amount", "term_years",
             "smoker_multiplier", "male_factor", "age_band", "base_rates",
             "features"}

CleanPlan(p) == [k \in PlanKeys \cap DOMAIN p |-> p[k]]

--------------------------------------------------------------------------
(* The document store: db.<collection>.insert_one / find / count_documents,
   and database.create_document *)

Store == [insurer |-> insurer, plan |-> plan, quoterequest |-> quoterequest,
          quote |-> quote, nextId |-> nextId]

\* db.<coll>.insert_one(doc): the document is stored under a fresh _id
insert_one(st, coll, doc) ==
    [st EXCEPT ![coll] = Append(@, WithId(doc, st.nextId)),
               !.nextId = @ + 1]

\* create_document(collection_name, data): inserts the data as one document
\* of the collection; the id it returns is Str of the _id given
create_document(st, coll, data) == insert_one(st, coll, data)

RECURSIVE InsertAll(_, _, _)
InsertAll(st, coll, docs) ==
    IF docs = <<>> THEN st
    ELSE InsertAll(insert_one(st, coll, Head(docs)), coll, Tail(docs))

\* lines 64-66 for the three insurers, 68-105 for the three plans
InsertSeed(st) ==
    InsertAll(InsertAll(st, "insurer", SeedInsurers), "plan",
              SeedPlans(st.nextId, st.nextId + 1, st.nextId + 2))

\* faulty variant: line 61 with "or": nothing is seeded unless both counts are 0
SeedNeededBothEmpty(insurers_count, plans_count) ==
    insurers_count = 0 /\ plans_count = 0

\* line 61, negated: the seed is inserted
SeedNeeded(insurers_count, plans_count) ==
    ~(insurers_count > 0 /\ plans_count > 0)

\* faulty variant: the check of line 61 is dropped, the seed is inserted on every call
SeedAlways(st) == InsertSeed(st)

\* lines 59-105: the store after seed_data()
AfterSeedData(st) ==
    IF SeedNeeded(Len(st.insurer), Len(st.plan)) THEN InsertSeed(st) ELSE st

\* lines 62, 107-110
SeedStatus(st) == [insurers |-> Len(st.insurer), plans |-> Len(st.plan)]

NoRequest == [age |-> 0]

\* POST /seed, lines 56-110.  db is the connected database handle of the
\* database module: "if db" holds and the counts are read from the store.
seed_data ==
    /\ \E st \in {AfterSeedData(Store)} :
           /\ insurer' = st.insurer
           /\ plan' = st.plan
           /\ nextId' = st.nextId
           /\ resp' = [op |-> "seed", status |-> "ok", raised |-> "none",
                       body |-> SeedStatus(st), request |-> NoRequest]
    /\ calls' = calls + 1
    /\ UNCHANGED <<quoterequest, quote, procVars, calcVars>>

--------------------------------------------------------------------------
(* get_quote, src/main.py:138-188 *)

\* line 163: {str(i["_id"]): i for i in db.insurer.find({})}; a later
\* document with the same key replaces an earlier one
insurers_by_id(ins) ==
    [k \in {Str(ins[i]._id) : i \in DOMAIN ins} |->
        ins[CHOOSE i \in DOMAIN ins :
               /\ Str(ins[i]._id) = k
               /\ \A j \in DOMAIN ins : Str(ins[j]._id) = k => j <= i]]

\* faulty variant: the quote echoes the plan's own coverage_amount and term_years
QuoteOfPlanValues(request_id, ins, p, premium, request) ==
    [request_id |-> request_id, insurer_name |-> ins.name, plan_name |-> p.name,
     monthly_premium |-> premium, coverage_amount |-> p.coverage_amount,
     term_years |-> p.term_years, features |-> p.features]

\* lines 173-181
QuoteOf(request_id, ins, p, premium, request) ==
    [request_id |-> request_id, insurer_name |-> ins.name, plan_name |-> p.name,
     monthly_premium |-> premium, coverage_amount |-> request.coverage_amount,
     term_years |-> request.term_years, features |-> p.features]

\* faulty variant: a plan without insurer is quoted under the default name "Insurer"
RECURSIVE BuildQuotesKeepDangling(_, _, _, _)
BuildQuotesKeepDangling(plans, byId, request, request_id) ==
    IF plans = <<>> THEN <<>>
    ELSE LET p == Head(plans)
             premium == premium_from_plan(p, request).value
             rest == BuildQuotesKeepDangling(Tail(plans), byId, request, request_id)
         IN  IF p.insurer_id \notin DOMAIN byId
             THEN <<QuoteOf(request_id, [name |-> "Insurer"], p, premium, request)>>
                  \o rest
             ELSE <<QuoteOf(request_id, byId[p.insurer_id], p, premium, request)>>
                  \o rest

\* lines 167-182: one quote per plan whose insurer is found, in plan order
RECURSIVE BuildQuotes(_, _, _, _)
BuildQuotes(plans, byId, request, request_id) ==
    IF plans = <<>> THEN <<>>
    ELSE LET p == Head(plans)
             premium == premium_from_plan(p, request).value
             rest == BuildQuotes(Tail(plans), byId, request, request_id)
         IN  IF p.insurer_id \notin DOMAIN byId THEN rest
             ELSE <<QuoteOf(request_id, byId[p.insurer_id], p, premium, request)>>
                  \o rest

\* q placed behind every element whose key is <= its own
RECURSIVE InsertByPremium(_, _)
InsertByPremium(sorted, q) ==
    IF sorted = <<>> THEN <<q>>
    ELSE LET l == sorted[Len(sorted)]
         IN  IF l.monthly_premium <= q.monthly_premium THEN Append(sorted, q)
             ELSE Append(InsertByPremium(SubSeq(sorted, 1, Len(sorted) - 1), q), l)

\* faulty variant: a sort that places q in front of the elements with an equal key
\* (ascending, but not stable)
RECURSIVE InsertBeforeEqual(_, _)
InsertBeforeEqual(sorted, q) ==
    IF sorted = <<>> THEN <<q>>
    ELSE LET l == sorted[Len(sorted)]
         IN  IF l.monthly_premium < q.monthly_premium THEN Append(sorted, q)
             ELSE Append(InsertBeforeEqual(SubSeq(sorted, 1, Len(sorted) - 1), q), l)

RECURSIVE SortUnstable(_)
SortUnstable(quotes) ==
    IF quotes = <<>> THEN <<>>
    ELSE InsertBeforeEqual(SortUnstable(SubSeq(quotes, 1, Len(quotes) - 1)),
                           quotes[Len(quotes)])

\* line 184: quotes.sort(key=lambda x: x.monthly_premium), a stable sort
RECURSIVE SortByPremium(_)
SortByPremium(quotes) ==
    IF quotes = <<>> THEN <<>>
    ELSE InsertByPremium(SortByPremium(SubSeq(quotes, 1, Len(quotes) - 1)),
                         quotes[Len(quotes)])

\* lines 185-186: create_document("quote", q) for the first n ranked quotes
RECURSIVE PersistQuotes(_, _, _)
PersistQuotes(st, ranked, n) ==
    IF n = 0 THEN st
    ELSE create_document(PersistQuotes(st, ranked, n - 1), "quote", ranked[n])

\* line 169 raises when some plan has no base rate to read
PremiumFails(plans, request) ==
    \E j \in DOMAIN plans : premium_from_plan(plans[j], request).err # "none"

\* lines 142-182 on the store st: what the handler has computed when it
\* reaches the sort
QuoteRun(st, request) ==
    LET st1 == IF Len(st.insurer) = 0 \/ Len(st.plan) = 0
               THEN AfterSeedData(st) ELSE st
        plans == [j \in DOMAIN st1.plan |-> CleanPlan(st1.plan[j])]
        byId == insurers_by_id(st1.insurer)
        request_id == Str(st1.nextId)
        st2 == create_document(st1, "quoterequest", request)
    IN  [seeded |-> st1, saved |-> st2, plans |-> plans,
         quotes |-> IF PremiumFails(plans, request) THEN <<>>
                    ELSE BuildQuotes(plans, byId, request, request_id),
         failed |-> PremiumFails(plans, request)]

\* POST /quote, lines 138-188.  failAt = 0: every store call succeeds;
\* failAt = 1: create_document("quoterequest", ..) raises; failAt = k + 1:
\* create_document("quote", ..) raises for the k-th ranked quote.  No
\* try/except encloses lines 165 and 186: what a store call raises leaves the
\* handler, and the caller gets the error instead of the list.
get_quote(request, failAt) ==
    /\ \E run \in {QuoteRun(Store, request)} :
       \E ranked \in {SortByPremium(run.quotes)} :
       /\ failAt <= Len(ranked) + 1
       /\ \E st \in {IF failAt = 1 THEN run.seeded
                     ELSE IF run.failed THEN run.saved
                     ELSE PersistQuotes(run.saved, ranked,
                                        IF failAt = 0 THEN Len(ranked)
                                        ELSE failAt - 2)} :
           /\ insurer' = st.insurer
           /\ plan' = st.plan
           /\ quoterequest' = st.quoterequest
           /\ quote' = st.quote
           /\ nextId' = st.nextId
           /\ resp' = IF failAt = 1
                      THEN [op |-> "quote", status |-> "error",
                            raised |-> "create_document quoterequest",
                            body |-> <<>>, request |-> request]
                      ELSE IF run.failed
                      THEN [op |-> "quote", status |-> "error",
                            raised |-> "IndexError",
                            body |-> <<>>, request |-> request]
                      ELSE IF failAt > 1
                      THEN [op |-> "quote", status |-> "error",
                            raised |-> "create_document quote",
                            body |-> <<>>, request |-> request]
                      ELSE [op |-> "quote", status |-> "ok", raised |-> "none",
                            body |-> ranked, request |-> request]
    /\ calls' = calls + 1
    /\ UNCHANGED <<procVars, calcVars>>

--------------------------------------------------------------------------
(* Inputs *)

Request(age, gender, smoker, coverage_amount, term_years) ==
    [first_name |-> "None", age |-> age, gender |-> gender, smoker |-> smoker,
     coverage_amount |-> coverage_amount, term_years |-> term_years]

\* the request of the worked example
ExampleRequest == Request(40, "male", FALSE, 250000, 20)

\* the requests sent to POST /quote
Requests ==
    { ExampleRequest,
      Request(30, "female", TRUE, 500000, 30),
      Request(60, "other", FALSE, 100000, 10) }

\* a catalog as an earlier run or an operator of the store may have left it:
\* k insurers with ids 1..k, then n plans, each with the rates of a seeded
\* plan and the id of one of the insurers or of no insurer (k + 1)
MaxInsurers == 1

MaxPlans == 3

CatalogInsurers(k) ==
    [i \in 1..k |-> WithId(InsurerModel("Insurer " \o ToString(i), 45, "None"), i)]

CatalogPlan(j, kind, ref, oid) ==
    WithId([SeedPlans(0, 0, 0)[kind] EXCEPT !.insurer_id = Str(ref),
                                            !.name = "Plan " \o ToString(j)],
           oid)

NoResult == CalcResult("unset", 0, 0, 0)

NoPlan == [name |-> "None"]

Procs == {"c1", "c2"}

IdleProcs ==
    /\ pc = [p \in Procs |-> "idle"]
    /\ loc = [p \in Procs |-> [op |-> "none"]]

IdleCalc ==
    /\ cplan = NoPlan
    /\ creq = NoRequest
    /\ cout = NoResult
    /\ cprev = NoResult

NoResponse ==
    [op |-> "none", status |-> "none", raised |-> "none", body |-> <<>>,
     request |-> NoRequest]

\* an empty store, nothing called yet
InitEmpty ==
    /\ insurer = <<>>
    /\ plan = <<>>
    /\ quoterequest = <<>>
    /\ quote = <<>>
    /\ nextId = 1
    /\ resp = NoResponse
    /\ calls = 0
    /\ IdleProcs
    /\ IdleCalc

\* a store holding some catalog, nothing called yet
Init ==
    /\ \E k \in 0..MaxInsurers, n \in 0..MaxPlans :
         \E c \in [1..n -> (1..2) \X (1..(k + 1))] :
            /\ insurer = CatalogInsurers(k)
            /\ plan = [j \in 1..n |-> CatalogPlan(j, c[j][1], c[j][2], k + j)]
            /\ nextId = k + n + 1
    /\ quoterequest = <<>>
    /\ quote = <<>>
    /\ resp = NoResponse
    /\ calls = 0
    /\ IdleProcs
    /\ IdleCalc

SeedData == seed_data

GetQuote == \E request \in Requests : get_quote(request, 0)

\* a store call of the handler raises
GetQuoteStoreFails ==
    \E request \in Requests :
        \E failAt \in 1..(Len(plan) + Len(SeedPlans(0, 0, 0)) + 1) :
            get_quote(request, failAt)

\* sequential calls on a store that holds some catalog
Next ==
    \/ calls < MaxShortRun /\ SeedData
    \/ calls < MaxShortRun /\ GetQuote

Spec == Init /\ [][Next]_vars

\* sequential calls from an empty store
NextSeq ==
    \/ calls < MaxCalls /\ SeedData
    \/ calls < MaxCalls /\ GetQuote

SpecSeq == InitEmpty /\ [][NextSeq]_vars

\* sequential calls from an empty store, where a store call may raise
NextFault ==
    \/ calls < MaxShortRun /\ SeedData
    \/ calls < MaxShortRun /\ GetQuote
    \/ calls < MaxShortRun /\ GetQuoteStoreFails

SpecFault == InitEmpty /\ [][NextFault]_vars

--------------------------------------------------------------------------
(* The calculator alone: premium_from_plan on chosen plans and requests *)

\* the seeded plans, and plans whose age_band and base_rates differ in length
CalcPlans ==
    { SeedPlans(1, 2, 3)[j] : j \in 1..3 } \cup
    { [SeedPlans(1, 2, 3)[1] EXCEPT !.age_band = b, !.base_rates = r] :
         b \in { <<>>, <<25, 35, 45, 55>>, <<25, 35, 45, 55, 65>>, <<45, 25>> },
         r \in { <<>>, <<120>>, <<120, 180>> } }

CalcRequests ==
    { Request(a, g, s, 50000 * c, t) :
        a \in {18, 25, 40, 60, 70}, g \in {"male", "female", "other"},
        s \in BOOLEAN, c \in 1..MaxCoverageSteps, t \in {10, 20, 30} }

InitCalc ==
    /\ cplan \in CalcPlans
    /\ creq \in CalcRequests
    /\ cout = NoResult
    /\ cprev = NoResult
    /\ insurer = <<>>
    /\ plan = <<>>
    /\ quoterequest = <<>>
    /\ quote = <<>>
    /\ nextId = 1
    /\ resp = NoResponse
    /\ calls = 0
    /\ IdleProcs

\* premium_from_plan(cplan, creq)
Compute ==
    /\ cout.err = "unset"
    /\ cout' = premium_from_plan(cplan, creq)
    /\ UNCHANGED <<cplan, creq, cprev, storeVars, callVars, procVars>>

\* the same request with coverage_amount raised by 100000, computed again
RaiseCoverage ==
    /\ cout.err # "unset"
    /\ creq.coverage_amount + 100000 <= 50000 * MaxCoverageSteps
    /\ creq' = [creq EXCEPT !.coverage_amount = @ + 100000]
    /\ cprev' = cout
    /\ cout' = premium_from_plan(cplan, creq')
    /\ UNCHANGED <<cplan, storeVars, callVars, procVars>>

NextCalc == Compute \/ RaiseCoverage

SpecCalc == InitCalc /\ [][NextCalc]_vars

--------------------------------------------------------------------------
(* Concurrent handlers: each client runs one call of seed_data or get_quote,
   one store operation per step; the store serializes the operations and
   nothing else orders them *)

\* ObjectIds are made by the driver of the handler that inserts: each client
\* draws them from a range of its own
FirstOid == [c1 |-> 101, c2 |-> 201]

\* the locals of a handler call; oid is the next ObjectId of its driver,
\* checked tells that seed_data has run line 61, seeded that it went on to
\* line 64
NoLocals ==
    [op |-> "none", request |-> NoRequest, insurers_count |-> 0,
     plans_count |-> 0, checked |-> FALSE, seeded |-> FALSE,
     ids |-> <<>>, plans |-> <<>>,
     plans_raw |-> <<>>, byId |-> <<>>, ret |-> "None", oid |-> 0]

\* the store as client p writes to it
ClientStore(p) == [Store EXCEPT !.nextId = loc[p].oid]

\* the store is untouched, client p moves on
Local(p, label, locals) ==
    /\ pc' = [pc EXCEPT ![p] = label]
    /\ loc' = [loc EXCEPT ![p] = locals]
    /\ UNCHANGED <<storeVars, callVars, calcVars>>

\* client p has written, the store is st, and p moves on
Wrote(p, st, label, locals) ==
    /\ insurer' = st.insurer
    /\ plan' = st.plan
    /\ quoterequest' = st.quoterequest
    /\ quote' = st.quote
    /\ pc' = [pc EXCEPT ![p] = label]
    /\ loc' = [loc EXCEPT ![p] = [locals EXCEPT !.oid = st.nextId]]
    /\ UNCHANGED <<nextId, callVars, calcVars>>

\* a request arrives at POST /seed or POST /quote
Call(p) ==
    /\ pc[p] = "idle"
    /\ \/ Local(p, "L59", [NoLocals EXCEPT !.op = "seed", !.oid = FirstOid[p]])
       \/ Local(p, "L142", [NoLocals EXCEPT !.op = "quote", !.oid = FirstOid[p],
                                            !.request = ExampleRequest])

\* line 142, left operand: db.insurer.count_documents({}) == 0
QuoteCountInsurers(p) ==
    /\ pc[p] = "L142"
    /\ Local(p, IF Len(insurer) = 0 THEN "L59" ELSE "L142b", loc[p])

\* line 142, right operand: db.plan.count_documents({}) == 0
QuoteCountPlans(p) ==
    /\ pc[p] = "L142b"
    /\ Local(p, IF Len(plan) = 0 THEN "L59" ELSE "L146", loc[p])

\* where seed_data returns to: the caller in get_quote, or the client
SeedReturn(p) == IF loc[p].op = "quote" THEN "L146" ELSE "done"

\* line 59
SeedCountInsurers(p) ==
    /\ pc[p] = "L59"
    /\ Local(p, "L60", [loc[p] EXCEPT !.insurers_count = Len(insurer)])

\* lines 60-62: the second count, and the early return
SeedCountPlans(p) ==
    /\ pc[p] = "L60"
    /\ IF SeedNeeded(loc[p].insurers_count, Len(plan))
       THEN Local(p, "L64", [loc[p] EXCEPT !.plans_count = Len(plan),
                                           !.checked = TRUE,
                                           !.seeded = TRUE])
       ELSE Local(p, SeedReturn(p),
                  [loc[p] EXCEPT !.plans_count = Len(plan),
                                 !.checked = TRUE,
                                 !.ret = [insurers |-> loc[p].insurers_count,
                                          plans |-> Len(plan)]])

\* lines 64-66: one insert_one(Insurer(..)); after the third, lines 68-102
SeedInsertInsurer(p) ==
    /\ pc[p] = "L64"
    /\ \E ids \in {Append(loc[p].ids, loc[p].oid)} :
          Wrote(p, insert_one(ClientStore(p), "insurer", SeedInsurers[Len(ids)]),
                IF Len(ids) = Len(SeedInsurers) THEN "L105" ELSE "L64",
                [loc[p] EXCEPT !.ids = ids,
                               !.plans = IF Len(ids) = Len(SeedInsurers)
                                         THEN SeedPlans(ids[1], ids[2], ids[3])
                                         ELSE <<>>])

\* lines 104-105: one db.plan.insert_one(p.model_dump())
SeedInsertPlan(p) ==
    /\ pc[p] = "L105"
    /\ Wrote(p, insert_one(ClientStore(p), "plan", Head(loc[p].plans)),
             IF Len(loc[p].plans) = 1 THEN "L108" ELSE "L105",
             [loc[p] EXCEPT !.plans = Tail(@)])

\* line 108
SeedRecountInsurers(p) ==
    /\ pc[p] = "L108"
    /\ Local(p, "L109", [loc[p] EXCEPT !.ret = [insurers |-> Len(insurer),
                                                plans |-> 0]])

\* line 109, and the return of line 107
SeedRecountPlans(p) ==
    /\ pc[p] = "L109"
    /\ Local(p, SeedReturn(p), [loc[p] EXCEPT !.ret.plans = Len(plan)])

\* lines 146-161
FindPlans(p) ==
    /\ pc[p] = "L146"
    /\ Local(p, "L163",
             [loc[p] EXCEPT !.plans_raw = [j \in DOMAIN plan |-> CleanPlan(plan[j])]])

\* line 163
FindInsurers(p) ==
    /\ pc[p] = "L163"
    /\ Local(p, "L165", [loc[p] EXCEPT !.byId = insurers_by_id(insurer)])

\* lines 165-188: the quoterequest is saved, the quotes are built, ranked
\* and saved, the list is returned.  These lines write quoterequest and
\* quote only, which no step of any handler reads: they are taken in one
\* step.  The locals other than the list returned end with the call.
SaveAndReturn(p) ==
    /\ pc[p] = "L165"
    /\ \E ranked \in {SortByPremium(BuildQuotes(loc[p].plans_raw, loc[p].byId,
                                                loc[p].request, Str(loc[p].oid)))} :
          Wrote(p, PersistQuotes(create_document(ClientStore(p), "quoterequest",
                                                 loc[p].request),
                                 ranked, Len(ranked)),
                "done",
                [loc[p] EXCEPT !.ret = ranked, !.plans_raw = <<>>, !.byId = <<>>])

NextConc ==
    \/ \E p \in Procs : Call(p)
    \/ \E p \in Procs : QuoteCountInsurers(p)
    \/ \E p \in Procs : QuoteCountPlans(p)
    \/ \E p \in Procs : SeedCountInsurers(p)
    \/ \E p \in Procs : SeedCountPlans(p)
    \/ \E p \in Procs : SeedInsertInsurer(p)
    \/ \E p \in Procs : SeedInsertPlan(p)
    \/ \E p \in Procs : SeedRecountInsurers(p)
    \/ \E p \in Procs : SeedRecountPlans(p)
    \/ \E p \in Procs : FindPlans(p)
    \/ \E p \in Procs : FindInsurers(p)
    \/ \E p \in Procs : SaveAndReturn(p)

InitConc ==
    /\ insurer = <<>>
    /\ plan = <<>>
    /\ quoterequest = <<>>
    /\ quote = <<>>
    /\ nextId = 1
    /\ resp = NoResponse
    /\ calls = 0
    /\ pc = [p \in Procs |-> "idle"]
    /\ loc = [p \in Procs |-> NoLocals]
    /\ IdleCalc

SpecConc == InitConc /\ [][NextConc]_vars

--------------------------------------------------------------------------
(* Properties of the calculator, checked under SpecCalc *)

ExamplePlan == SeedPlans(1, 2, 3)[1]

\* C4 as stated: for the Term Secure plan and the request (40, male,
\* non-smoker, 250000, 20 years) premium_from_plan selects band index 1, uses
\* 3 coverage units and returns 56.70
C4_AsStated ==
    (cplan = ExamplePlan /\ creq = ExampleRequest /\ cout.err # "unset")
        => cout = CalcResult("none", 5670, 1, 3)

\* C4 as amended: for that plan and request premium_from_plan selects band
\* index 1, uses 2 coverage units (round(2.5) = 2, a tie goes to the even
\* neighbour) and returns 37.80
C4_ExamplePremium ==
    (cplan = ExamplePlan /\ creq = ExampleRequest /\ cout.err # "unset")
        => cout = CalcResult("none", 3780, 1, 2)

C4_Witness ==
    cplan = ExamplePlan /\ creq = ExampleRequest /\ cout.err = "none"

LastBandAtMost(bands, age) ==
    LET S == {i \in 1..Len(bands) : bands[i] <= age}
    IN  IF S = {} THEN 0 ELSE (CHOOSE i \in S : \A j \in S : j <= i) - 1

\* C8: with a non-empty base_rates, whatever the length of age_band and the
\* age, premium_from_plan raises nothing and reads base_rates at
\* min(k, len(base_rates) - 1), which lies in 0..len(base_rates) - 1
C8_IndexInRange ==
    (cout.err # "unset" /\ Len(cplan.base_rates) >= 1)
        => /\ cout.err = "none"
           /\ cout.idx = Min(LastBandAtMost(cplan.age_band, creq.age),
                             Len(cplan.base_rates) - 1)
           /\ cout.idx \in 0..(Len(cplan.base_rates) - 1)

\* more bands than rates, and an age whose band has no rate: the clamp acts
C8_Witness ==
    /\ cout.err = "none"
    /\ Len(cplan.age_band) > Len(cplan.base_rates)
    /\ LastBandAtMost(cplan.age_band, creq.age) > Len(cplan.base_rates) - 1
    /\ cout.idx = Len(cplan.base_rates) - 1

--------------------------------------------------------------------------
(* Properties of the handlers *)

\* the ids, in text form, of the insurers in the store
InsurerKeys == {Str(insurer[i]._id) : i \in DOMAIN insurer}

\* positions of the plans whose insurer exists, and of those whose does not
Quotable == {j \in DOMAIN plan : plan[j].insurer_id \in InsurerKeys}

Dangling == DOMAIN plan \ Quotable

\* position in the plan collection of the plan a quote was made from (plan
\* names are distinct in every catalog used here)
PlanPos(q) == CHOOSE j \in DOMAIN plan : plan[j].name = q.plan_name

QuoteReturned == resp.op = "quote" /\ resp.status = "ok"

\* C1: the list get_quote returns ascends by monthly_premium, and quotes of
\* equal monthly_premium stand in the order of their plans in the catalog
C1_RankedStable ==
    QuoteReturned =>
        \A i, j \in DOMAIN resp.body :
            i < j =>
                /\ resp.body[i].monthly_premium <= resp.body[j].monthly_premium
                /\ resp.body[i].monthly_premium = resp.body[j].monthly_premium
                      => PlanPos(resp.body[i]) < PlanPos(resp.body[j])

\* a returned list with two quotes of equal premium, and with a quote that
\* the sort moved in front of a plan that comes earlier in the catalog
C1_Witness ==
    /\ QuoteReturned
    /\ \E i, j \in DOMAIN resp.body :
          i < j /\ resp.body[i].monthly_premium = resp.body[j].monthly_premium
    /\ \E i, j \in DOMAIN resp.body :
          i < j /\ PlanPos(resp.body[i]) > PlanPos(resp.body[j])

\* the documents of the quote collection written for the last quoterequest
QuotesOfLastRequest ==
    IF quoterequest = <<>> THEN {}
    ELSE {i \in DOMAIN quote :
            quote[i].request_id = Str(quoterequest[Len(quoterequest)]._id)}

\* C2: a plan whose insurer_id is no insurer's id gets no quote, neither in
\* the returned list nor in the quote collection, no error is raised, and
\* every other plan gets exactly one quote
C2_DanglingSkipped ==
    resp.op = "quote" =>
        /\ resp.status = "ok"
        /\ \A j \in Dangling :
              /\ \A i \in DOMAIN resp.body : resp.body[i].plan_name # plan[j].name
              /\ \A i \in QuotesOfLastRequest : quote[i].plan_name # plan[j].name
        /\ \A j \in Quotable :
              /\ Cardinality({i \in DOMAIN resp.body :
                                 resp.body[i].plan_name = plan[j].name}) = 1
              /\ Cardinality({i \in QuotesOfLastRequest :
                                 quote[i].plan_name = plan[j].name}) = 1

C2_Witness ==
    /\ QuoteReturned
    /\ Dangling # {}
    /\ Quotable # {}
    /\ Len(resp.body) = Cardinality(Quotable)

\* a step of seed_data
SeedStep == resp'.op = "seed" /\ calls' = calls + 1

\* C3: seed_data called on a catalog with at least one insurer and at least
\* one plan inserts nothing, leaves both collections as they are and returns
\* the counts there are
C3_SeedNoOp ==
    [][(SeedStep /\ Len(insurer) > 0 /\ Len(plan) > 0)
          => /\ UNCHANGED storeVars
             /\ resp'.body = [insurers |-> Len(insurer), plans |-> Len(plan)]]_vars

\* seed_data twice in a row on a catalog of one insurer and one plan
C3_Witness ==
    /\ resp.op = "seed"
    /\ calls = 2
    /\ quoterequest = <<>>
    /\ Len(insurer) = 1
    /\ Len(plan) = 1
    /\ resp.body = [insurers |-> 1, plans |-> 1]

\* s is t with elements appended
IsPrefix(s, t) == Len(s) <= Len(t) /\ SubSeq(t, 1, Len(s)) = s

\* a stored document without its _id
Dump(doc) == [k \in DOMAIN doc \ {"_id"} |-> doc[k]]

\* a step of get_quote that returns the list
QuoteStep == resp'.op = "quote" /\ resp'.status = "ok" /\ calls' = calls + 1

\* C9: quoterequest and quote only grow; a get_quote call that completes
\* appends one quoterequest, the request itself, and then one quote for each
\* plan whose insurer exists, cheapest first; each of them carries the id of
\* that quoterequest and the coverage_amount and term_years of the request
C9_AppendPerCall ==
    [][/\ IsPrefix(quoterequest, quoterequest')
       /\ IsPrefix(quote, quote')
       /\ QuoteStep =>
            LET new == SubSeq(quote', Len(quote) + 1, Len(quote'))
                saved == quoterequest'[Len(quoterequest')]
            IN  /\ Len(quoterequest') = Len(quoterequest) + 1
                /\ Dump(saved) = resp'.request
                /\ Len(new) = Cardinality(Quotable')
                /\ [i \in DOMAIN new |-> Dump(new[i])] = resp'.body
                /\ \A i \in DOMAIN new :
                      /\ new[i].request_id = Str(saved._id)
                      /\ new[i].coverage_amount = resp'.request.coverage_amount
                      /\ new[i].term_years = resp'.request.term_years
                      /\ i < Len(new) =>
                            new[i].monthly_premium <= new[i + 1].monthly_premium
      ]_vars

\* two completed calls; the quotes of the second echo a coverage_amount and
\* term_years that are not those of their plans
C9_Witness ==
    /\ QuoteReturned
    /\ Len(quoterequest) = 2
    /\ Len(resp.body) >= 2
    /\ Len(quote) > Len(resp.body)
    /\ \A i \in DOMAIN resp.body :
          /\ resp.body[i].coverage_amount # plan[PlanPos(resp.body[i])].coverage_amount
          /\ resp.body[i].term_years # plan[PlanPos(resp.body[i])].term_years

\* C10: from an empty store, after the first call of a sequential run the
\* catalog holds exactly 3 insurers and 3 plans, every plan's insurer_id is
\* the id of an insurer, and every get_quote call returns exactly 3 quotes
C10_SeededOnce ==
    calls >= 1 =>
        /\ Len(insurer) = 3
        /\ Len(plan) = 3
        /\ \A j \in DOMAIN plan : plan[j].insurer_id \in InsurerKeys
        /\ resp.op = "quote" => (resp.status = "ok" /\ Len(resp.body) = 3)

\* a get_quote after a seed_data after a get_quote
C10_Witness ==
    /\ calls >= 3
    /\ QuoteReturned
    /\ Len(resp.body) = 3
    /\ Len(quoterequest) = 2
    /\ Len(insurer) = 3
    /\ Len(plan) = 3

\* C6 as stated: when create_document("quote", q) raises for a quote of the
\* ranked list, get_quote still returns the full list of computed quotes
C6_AsStated ==
    (resp.op = "quote" /\ resp.raised = "create_document quote")
        => /\ resp.status = "ok"
           /\ Len(resp.body) = Cardinality(Quotable)

--------------------------------------------------------------------------
(* Properties of concurrent calls, checked under SpecConc *)

AllDone == \A p \in Procs : pc[p] = "done"

Seeders == {p \in Procs : loc[p].seeded}

\* C7: nothing coordinates the check of line 61 with the inserts behind it:
\* a call that counted no insurer or no plan inserts the whole seed whatever
\* the other call has done meanwhile, so that two calls on an empty catalog
\* that both pass the check leave 6 insurers and 6 plans
C7_DuplicateSeed ==
    /\ \A p \in Procs :
          /\ loc[p].seeded => loc[p].checked
          /\ loc[p].checked =>
                (loc[p].seeded <=>
                    (loc[p].insurers_count = 0 \/ loc[p].plans_count = 0))
    /\ AllDone =>
          /\ Len(insurer) = Len(SeedInsurers) * Cardinality(Seeders)
          /\ Len(plan) = Len(SeedPlans(0, 0, 0)) * Cardinality(Seeders)

\* two get_quote calls, both counted 0 insurers and 0 plans, both seeded
C7_Witness ==
    /\ AllDone
    /\ \A p \in Procs :
          /\ loc[p].op = "quote"
          /\ loc[p].seeded
          /\ loc[p].insurers_count = 0
          /\ loc[p].plans_count = 0
    /\ Len(insurer) = 6
    /\ Len(plan) = 6

====
